---- MODULE Spec2Model ----
(***************************************************************************)
(* A model of the Reddit flair scraper (src/scrapers/reddit_flair_scraper  *)
(* .py) and of its orchestrator (src/scrapers/run_reddit_scrapes.py).      *)
(*                                                                         *)
(* The module holds state machines over disjoint groups of variables,      *)
(* one specification each:                                                 *)
(*   SpecRetry    - safe_request, one attempt per step                     *)
(*   SpecCrawl    - scrape_posts, one iteration of its while loop per step *)
(*   SpecMerge    - merge_into_master on the per-subreddit master files    *)
(*   SpecBackfill - run_initial driving the scraper subprocess, with the   *)
(*                  process being killed and restarted                     *)
(*   SpecDaily    - run_daily, one run_scraper call per step               *)
(*   SpecSnapshot - the run snapshot files run_for_flair writes            *)
(*   SpecComments - fetch_comments and parse_comment on a thread's payload *)
(*   SpecPipeline - run_for_flair, one call or file write per step         *)
(*   SpecWriters  - two processes in merge_into_master on one master file  *)
(* A specification leaves the variables of the other machines untouched.   *)
(*                                                                         *)
(* Python's None is the empty tuple <<>> and a present value v is <<v>>.   *)
(***************************************************************************)
EXTENDS Integers, Sequences, FiniteSets, TLC

VARIABLES
    \* ---- safe_request ----
    rq_pc,        \* "idle", "try", "returned", "raised_runtime", "raised_other"
    attempt,      \* the loop variable of `for attempt in range(MAX_RETRIES)`
    backoff,      \* the local `backoff`, in seconds
    rq_hist,      \* history: the outcome of every requests.get of this call
    rq_sleeps,    \* history: the argument of every time.sleep of this call
    \* ---- scrape_posts ----
    feed,         \* the upstream search feed: its pages
    since_ts,     \* argument since_ts (optional)
    until_ts,     \* argument until_ts (optional)
    max_posts,    \* argument max_posts (optional)
    posts,        \* the local dict `posts`, as its values in insertion order
    after,        \* the local `after`: 0 is None, else the cursor
    cr_pc,        \* "loop", "returned", "raised"
    cr_fetched,   \* history: the `after` of every page request of this call
    cr_sleeps,    \* history: how many time.sleep(rate_limit) this call made
    \* ---- merge_into_master ----
    master,       \* the master file of every subreddit
    clock,        \* datetime.utcnow()
    new_posts,    \* the item list a run holds (run_for_flair's `posts`)
    m_count,      \* history: merges of new_posts into each subreddit (0, 1, 2+)
    m_first,      \* history: each master file after the first of those merges
    m_latest,     \* history: per subreddit, the last merged version of each id
    m_overwrote,  \* history: the last merge replaced a stored version by another
    \* ---- run_initial and the scraper subprocess it runs ----
    today,        \* datetime.utcnow().date(), as a day number (1 = 1 January)
    state_file,   \* the file INITIAL_STATE
    bf_pc,        \* where run_initial (or its subprocess) stands
    state,        \* the local dict `state`: the cursor of each flair, 0 if none
    end_date,     \* the local end_date
    start_date,   \* the local start_date
    flair,        \* the index in FLAIRS of the for loop's flair
    current,      \* the local `current`
    month_end,    \* the local month_end
    sc_posts,     \* the subprocess's item list `posts`
    sc_pending,   \* the subprocess's dict `master`, loaded and upserted
    sc_done,      \* history: the steps the running subprocess has completed
    bf_loaded,    \* history: the cursors this run loaded at its start
    bf_launches,  \* history: the chunks this run has handed to run_scraper
    bf_failed,    \* history: which launch of this run failed (0: none)
    bf_lastAdv,   \* history: the last cursor advance of this run
    bf_restarted, \* history: this run began after the run before it was killed
    bf_killed,    \* history: the chunk in flight when the run was killed
    bf_merged,    \* history: the chunks whose subprocess merged and exited with 0
    bf_ref,       \* history: a master into which each of them is merged once
    bf_persisted, \* history: the cursors save_state last wrote in full
    \* ---- run_daily ----
    d_file,       \* the file DAILY_STATE: its "last_run", 0 if it has none
    d_pc,         \* "idle", "loop", "record", "done", "aborted"
    d_state,      \* the local dict `state`: its "last_run", 0 if it has none
    d_now,        \* the local `now`
    d_flair,      \* the index in FLAIRS of the for loop's flair
    d_runs,       \* how many invocations have begun; stands for the wall clock
    d_requests,   \* history: the run_scraper calls of this invocation
    d_failed,     \* history: which call of this invocation failed (0: none)
    d_before,     \* history: d_file when this invocation began
    d_kept,       \* history: the master after the last call that succeeded
    \* ---- the run snapshot of run_for_flair ----
    sn_clock,     \* datetime.utcnow(), in ticks of TicksPerSecond to the second
    sn_files,     \* the directory RUNS_DIR: the content of each path in it
    sn_log,       \* history: the path and the content of every snapshot written
    \* ---- fetch_comments ----
    cm_data,      \* what safe_request returns for the permalink
    cm_pc,        \* "call", "returned", "raised"
    cm_comments,  \* the list fetch_comments returns
    cm_sleeps,    \* history: how many time.sleep(rate_limit) the call made
    \* ---- run_for_flair ----
    pl_pc,        \* "start", "comments", "merge", "done", "raised"
    pl_merge,     \* argument merge
    pl_posts,     \* the local list `posts`
    pl_i,         \* the position of the for loop of line 199 in posts
    pl_crawled,   \* history: the list scrape_posts returned
    pl_log,       \* history: the calls made and the files written, in order
    pl_snaps,     \* history: the "posts" of every snapshot written
    pl_before,    \* history: the master file when the run began
    \* ---- two concurrent calls of merge_into_master on one subreddit ----
    cw_pc,        \* per writer: "idle", "loaded", "opened", "done", "raised"
    cw_list,      \* per writer: its argument new_posts
    cw_mem,       \* per writer: its local dict `master`, loaded and upserted
    cw_overlap,   \* history: a writer began while the other was at work
    cw_bothLoaded,\* history: both had loaded before either opened for writing
    cw_last,      \* history: the writer that wrote last (0: none)
    cw_initial,   \* history: the master file before the two calls
    \* ---- the time window of one invocation of the scraper ----
    a_days,       \* args.days: absent, or the integer given
    a_since,      \* args.since: absent, or the date given
    a_until,      \* args.until: absent, or the date given
    wn_now,       \* the local `now` of run_for_flair, in seconds
    wn_pc,        \* "cli", "parsed", "crawl"
    wn_since_ts,  \* the since_ts handed to scrape_posts
    wn_until_ts   \* the until_ts handed to scrape_posts

retryVars == <<rq_pc, attempt, backoff, rq_hist, rq_sleeps>>
crawlVars == <<feed, since_ts, until_ts, max_posts, posts, after, cr_pc,
               cr_fetched, cr_sleeps>>
mergeVars == <<master, clock, new_posts, m_count, m_first, m_latest, m_overwrote>>
mergeGhosts == <<clock, new_posts, m_count, m_first, m_latest, m_overwrote>>
bfLocals == <<state, end_date, start_date, flair, current, month_end,
              sc_posts, sc_pending, sc_done>>
runHistory == <<bf_loaded, bf_launches, bf_failed, bf_lastAdv>>
everHistory == <<bf_restarted, bf_killed, bf_merged, bf_ref, bf_persisted>>
bfHistory == <<runHistory, everHistory>>
backfillVars == <<today, state_file, bf_pc, bfLocals, bfHistory>>
dailyVars == <<d_file, d_pc, d_state, d_now, d_flair, d_runs, d_requests,
               d_failed, d_before, d_kept>>
snapVars == <<sn_clock, sn_files, sn_log>>
commentVars == <<cm_data, cm_pc, cm_comments, cm_sleeps>>
pipelineVars == <<pl_pc, pl_merge, pl_posts, pl_i, pl_crawled, pl_log, pl_snaps,
                  pl_before>>
writerVars == <<cw_pc, cw_list, cw_mem, cw_overlap, cw_bothLoaded, cw_last,
                cw_initial>>
windowVars == <<a_days, a_since, a_until, wn_now, wn_pc, wn_since_ts, wn_until_ts>>
laterVars == <<dailyVars, snapVars, commentVars, pipelineVars, writerVars,
               windowVars>>
vars == <<retryVars, crawlVars, mergeVars, backfillVars, laterVars>>

None == <<>>
Some(x) == <<x>>
\* Python truthiness of an optional integer: None and 0 are both falsy.
Truthy(o) == o # None /\ o[1] # 0

Min(a, b) == IF a <= b THEN a ELSE b

(***************************************************************************)
(* safe_request                       reddit_flair_scraper.py, lines 45-57 *)
(***************************************************************************)
MAX_RETRIES == 3

\* What one requests.get / raise_for_status / r.json() can do.
\*   ok           2xx status and a body r.json() parses
\*   timeout      requests.Timeout                  (a RequestException)
\*   connection   requests.ConnectionError          (a RequestException)
\*   http5xx      raise_for_status: HTTPError       (a RequestException)
\*   http4xx      raise_for_status: HTTPError       (a RequestException)
\*   badjson_req  r.json() raises requests.exceptions.JSONDecodeError, which
\*                is a RequestException since requests 2.27
\*   badjson_val  r.json() raises a plain ValueError (requests before 2.27)
\* Which of the last two an unparseable body gives is decided by the installed
\* requests, which the repository does not pin: both are outcomes.
Outcomes == {"ok", "timeout", "connection", "http5xx", "http4xx",
             "badjson_req", "badjson_val"}

\* The outcomes `except requests.RequestException` catches (line 53).
IsRequestException(o) ==
    o \in {"timeout", "connection", "http5xx", "http4xx", "badjson_req"}

\* A loop that allows one attempt more than MAX_RETRIES.
AttemptsAllowedOffByOne == MAX_RETRIES + 1

\* range(MAX_RETRIES), line 48: the loop body runs while attempt is below it.
AttemptsAllowed == MAX_RETRIES

RetryInit ==
    /\ rq_pc = "idle"
    /\ attempt = 0
    /\ backoff = 1
    /\ rq_hist = <<>>
    /\ rq_sleeps = <<>>

\* A call of safe_request begins: lines 46-47.
StartRequest ==
    /\ rq_pc # "try"
    /\ rq_pc' = "try"
    /\ attempt' = 0
    /\ backoff' = 1
    /\ rq_hist' = <<>>
    /\ rq_sleeps' = <<>>

\* After a caught failure (lines 54-56): the wait, the doubling, and the next
\* turn of the for loop, which ends in the RuntimeError of line 57 when the
\* range is used up.
AfterCaught ==
    /\ rq_sleeps' = Append(rq_sleeps, backoff)
    /\ backoff' = backoff * 2
    /\ attempt' = attempt + 1
    /\ rq_pc' = IF attempt + 1 < AttemptsAllowed THEN "try" ELSE "raised_runtime"

\* One turn of the for loop: lines 49-56.
Attempt(o) ==
    /\ rq_pc = "try"
    /\ attempt < AttemptsAllowed
    /\ rq_hist' = Append(rq_hist, o)
    /\ IF o = "ok"
         THEN /\ rq_pc' = "returned"
              /\ UNCHANGED <<attempt, backoff, rq_sleeps>>
         ELSE IF IsRequestException(o)
           THEN AfterCaught
           ELSE /\ rq_pc' = "raised_other"
                /\ UNCHANGED <<attempt, backoff, rq_sleeps>>

(***************************************************************************)
(* scrape_posts                      reddit_flair_scraper.py, lines 96-158 *)
(***************************************************************************)
\* The posts upstream can hold. A post's id fixes its created_utc; `ver`
\* stands for its other fields (title, score, num_comments, ...).
PostIds == {"p1", "p2"}
Versions == {"a", "b"}
CreatedOf(id) == IF id = "p1" THEN 1 ELSE 2
Item(id, v) == [id |-> id, created_utc |-> CreatedOf(id), ver |-> v]

NPages == 2        \* pages of the upstream feed
MaxPageLen == 2    \* children on one page
MaxFetches == 4    \* page requests of one call the model follows

SeqsUpTo(S, n) == UNION {[1..k -> S] : k \in 0..n}

\* No id occurs twice in the list.
NoRepeat(l) == \A i, j \in 1..Len(l) : l[i].id = l[j].id => i = j

\* A page of search.json: data.children and data.after. `after` 0 is a null
\* cursor; a cursor k asks for page k. The first request carries no cursor and
\* gets page 1. A page without children carries no cursor.
FeedItems == {Item(id, "a") : id \in PostIds}
Pages == {pg \in [children : SeqsUpTo(FeedItems, MaxPageLen), after : 0..NPages] :
            pg.children = <<>> => pg.after = 0}
Feeds == [1..NPages -> Pages]
MaxTs == Cardinality(PostIds)
OptTs == {None} \cup {Some(t) : t \in 0..MaxTs}
OptCount == {None} \cup {Some(k) : k \in 0..Cardinality(PostIds)}

\* Lines 122-125: the two `continue`s.
SkipOld(created) == Truthy(since_ts) /\ created < since_ts[1]
SkipNew(created) == Truthy(until_ts) /\ created > until_ts[1]

\* Line 146.
ReachedMax(acc) == Truthy(max_posts) /\ Len(acc) >= max_posts[1]

HasId(acc, id) == \E i \in 1..Len(acc) : acc[i].id = id

\* Lines 118-147: the for loop over one page's children, from child i on, with
\* acc the dict `posts` and valid the flag page_valid. `full` is the early
\* return of line 147.
RECURSIVE ScanPage(_, _, _, _)
ScanPage(children, i, acc, valid) ==
    IF i > Len(children)
      THEN [posts |-> acc, page_valid |-> valid, full |-> FALSE]
      ELSE LET p == children[i]
               kept == IF HasId(acc, p.id) THEN acc ELSE Append(acc, p)
           IN IF SkipOld(p.created_utc) \/ SkipNew(p.created_utc)
                THEN ScanPage(children, i + 1, acc, valid)
                ELSE IF ReachedMax(kept)
                  THEN [posts |-> kept, page_valid |-> TRUE, full |-> TRUE]
                  ELSE ScanPage(children, i + 1, kept, TRUE)

\* The page upstream serves for a cursor (lines 108-113).
PageFor(cursor) == IF cursor = 0 THEN feed[1] ELSE feed[cursor]

CrawlInit ==
    /\ feed \in Feeds
    /\ since_ts \in OptTs
    /\ until_ts \in OptTs
    /\ max_posts \in OptCount
    /\ posts = <<>>
    /\ after = 0
    /\ cr_pc = "loop"
    /\ cr_fetched = <<>>
    /\ cr_sleeps = 0

\* safe_request raises (line 111), or the listing lacks a required key
\* (lines 112-143): the exception leaves scrape_posts.
CrawlFetchFails ==
    /\ cr_pc = "loop"
    /\ Len(cr_fetched) < MaxFetches
    /\ cr_fetched' = Append(cr_fetched, after)
    /\ cr_pc' = "raised"
    /\ UNCHANGED <<feed, since_ts, until_ts, max_posts, posts, after, cr_sleeps>>

\* A turn of the loop that sleeps after its page whether or not another page
\* is fetched.
CrawlPageSleepAlways ==
    /\ cr_pc = "loop"
    /\ Len(cr_fetched) < MaxFetches
    /\ cr_fetched' = Append(cr_fetched, after)
    /\ cr_sleeps' = cr_sleeps + 1
    /\ LET page == PageFor(after)
           r == ScanPage(page.children, 1, posts, FALSE)
       IN IF page.children = <<>>
            THEN cr_pc' = "returned" /\ UNCHANGED <<posts, after>>
            ELSE /\ posts' = r.posts
                 /\ IF r.full \/ ~r.page_valid
                      THEN cr_pc' = "returned" /\ UNCHANGED after
                      ELSE /\ after' = page.after
                           /\ cr_pc' = IF page.after = 0 THEN "returned" ELSE "loop"
    /\ UNCHANGED <<feed, since_ts, until_ts, max_posts>>

\* One turn of `while True` (lines 101-156) whose request succeeds.
CrawlPage ==
    /\ cr_pc = "loop"
    /\ Len(cr_fetched) < MaxFetches
    /\ cr_fetched' = Append(cr_fetched, after)
    /\ LET page == PageFor(after)
           r == ScanPage(page.children, 1, posts, FALSE)
       IN IF page.children = <<>>
            THEN /\ cr_pc' = "returned"
                 /\ UNCHANGED <<posts, after, cr_sleeps>>
            ELSE /\ posts' = r.posts
                 /\ IF r.full \/ ~r.page_valid
                      THEN /\ cr_pc' = "returned"
                           /\ UNCHANGED <<after, cr_sleeps>>
                      ELSE /\ after' = page.after
                           /\ IF page.after = 0
                                THEN /\ cr_pc' = "returned"
                                     /\ UNCHANGED cr_sleeps
                                ELSE /\ cr_pc' = "loop"
                                     /\ cr_sleeps' = cr_sleeps + 1
    /\ UNCHANGED <<feed, since_ts, until_ts, max_posts>>

\* scrape_posts is not running.
CrawlOff ==
    /\ feed = <<>>
    /\ since_ts = None
    /\ until_ts = None
    /\ max_posts = None
    /\ posts = <<>>
    /\ after = 0
    /\ cr_pc = "off"
    /\ cr_fetched = <<>>
    /\ cr_sleeps = 0

\* safe_request is not running.
RetryOff == RetryInit

(***************************************************************************)
(* merge_into_master                reddit_flair_scraper.py, lines 162-180 *)
(***************************************************************************)
Subreddits == {"UFL", "other"}

MaxListLen == 2    \* items in one merged list
\* The instants the wall clock shows: enough to tell "at the same time" from
\* "later".
Instants == {0, 1}

\* A master file. json.dump followed by json.load gives back the same dict:
\* the keys of "posts" are strings and the values are JSON values. A file
\* that does not exist has exists = FALSE; a file opened for writing and not
\* yet written has torn = TRUE and holds nothing json.load accepts.
AbsentFile ==
    [exists |-> FALSE, torn |-> FALSE, posts |-> <<>>,
     created |-> 0, last_updated |-> 0, total_posts |-> 0]

TornFile == [AbsentFile EXCEPT !.exists = TRUE, !.torn = TRUE]

\* A load that begins a new master whatever the file holds.
LoadMasterAlwaysNew(file, now) ==
    [exists |-> TRUE, torn |-> FALSE, posts |-> <<>>,
     created |-> now, last_updated |-> 0, total_posts |-> 0]

\* A load that stamps the master it has loaded as created now.
LoadMasterRestamped(file, now) ==
    [exists |-> TRUE, torn |-> FALSE, posts |-> file.posts,
     created |-> now, last_updated |-> file.last_updated,
     total_posts |-> file.total_posts]

\* Lines 165-169: the loaded master, or a new one.
LoadMaster(file, now) ==
    IF file.exists THEN file
    ELSE [exists |-> TRUE, torn |-> FALSE, posts |-> <<>>,
          created |-> now, last_updated |-> 0, total_posts |-> 0]

\* An upsert that keeps the stored item when the id is already there.
RECURSIVE UpsertKeepStored(_, _)
UpsertKeepStored(m, l) ==
    IF l = <<>> THEN m
    ELSE LET p == Head(l)
         IN UpsertKeepStored([k \in DOMAIN m \cup {p.id} |->
                                 IF k \in DOMAIN m THEN m[k] ELSE p], Tail(l))

\* Lines 171-172: master["posts"][post["id"]] = post, for every post in order.
RECURSIVE Upsert(_, _)
Upsert(m, l) ==
    IF l = <<>> THEN m
    ELSE LET p == Head(l)
         IN Upsert([k \in DOMAIN m \cup {p.id} |->
                       IF k = p.id THEN p ELSE m[k]], Tail(l))

\* A merge that takes the length of the merged list for the total.
MergeIntoMasterCountsList(file, l, now) ==
    LET m == LoadMaster(file, now)
    IN [m EXCEPT !.posts = Upsert(m.posts, l),
                 !.last_updated = now,
                 !.total_posts = Len(l)]

\* A merge that keeps a running count instead of recounting.
MergeIntoMasterRunningCount(file, l, now) ==
    LET m == LoadMaster(file, now)
    IN [m EXCEPT !.posts = Upsert(m.posts, l),
                 !.last_updated = now,
                 !.total_posts = m.total_posts + Len(l)]

\* Lines 165-178: the file merge_into_master writes.
MergeIntoMaster(file, l, now) ==
    LET m == LoadMaster(file, now)
        merged == Upsert(m.posts, l)
    IN [m EXCEPT !.posts = merged,
                 !.last_updated = now,
                 !.total_posts = Cardinality(DOMAIN merged)]

MergeItems == {Item(id, v) : id \in PostIds, v \in Versions}

IdsOf(l) == {l[i].id : i \in 1..Len(l)}
\* The last item of l that has this id.
LastOf(l, id) ==
    l[CHOOSE i \in 1..Len(l) :
        l[i].id = id /\ \A j \in 1..Len(l) : l[j].id = id => j <= i]

MergeInit ==
    /\ master = [s \in Subreddits |-> AbsentFile]
    /\ clock = 0
    /\ new_posts = <<>>
    /\ m_count = [s \in Subreddits |-> 0]
    /\ m_first = [s \in Subreddits |-> AbsentFile]
    /\ m_latest = [s \in Subreddits |-> <<>>]
    /\ m_overwrote = FALSE

MergeOff == MergeInit

\* Time passes.
Tick ==
    /\ clock + 1 \in Instants
    /\ clock' = clock + 1
    /\ UNCHANGED <<master, new_posts, m_count, m_first, m_latest, m_overwrote>>

\* A new run begins with no items (line 97), once the list of the run before
\* it has been merged.
NewRun ==
    /\ \E s \in Subreddits : m_count[s] > 0
    /\ new_posts' = <<>>
    /\ m_count' = [s \in Subreddits |-> 0]
    /\ m_first' = [s \in Subreddits |-> AbsentFile]
    /\ UNCHANGED <<master, clock, m_latest, m_overwrote>>

\* The run collects one more item (lines 130-144, 200) before it merges.
Collect(p) ==
    /\ \A s \in Subreddits : m_count[s] = 0
    /\ Len(new_posts) < MaxListLen
    /\ new_posts' = Append(new_posts, p)
    /\ UNCHANGED <<master, clock, m_count, m_first, m_latest, m_overwrote>>

\* merge_into_master(s, new_posts): lines 162-180.
Merge(s) ==
    /\ ~master[s].torn
    /\ LET written == MergeIntoMaster(master[s], new_posts, clock)
       IN /\ master' = [master EXCEPT ![s] = written]
          /\ m_first' = [m_first EXCEPT ![s] = IF m_count[s] = 0 THEN written ELSE @]
    /\ m_count' = [m_count EXCEPT ![s] = Min(@ + 1, 2)]
    /\ m_latest' = [m_latest EXCEPT ![s] =
                      [k \in DOMAIN @ \cup IdsOf(new_posts) |->
                          IF k \in IdsOf(new_posts) THEN LastOf(new_posts, k)
                          ELSE @[k]]]
    /\ m_overwrote' = \E k \in IdsOf(new_posts) \cap DOMAIN master[s].posts :
                          master[s].posts[k] # LastOf(new_posts, k)
    /\ UNCHANGED <<clock, new_posts>>

(***************************************************************************)
(* run_initial                        run_reddit_scrapes.py, lines 55-94   *)
(* and the subprocess run_scraper starts: run_for_flair with --merge,      *)
(*                                  reddit_flair_scraper.py, lines 184-223 *)
(***************************************************************************)
SUBREDDIT == "UFL"
FLAIRS == <<"Classes", "Schedule", "Graduation">>

\* The calendar: day 1 is 1 January of a year of 365 days; the months repeat.
DaysIn(m) == <<31, 28, 31, 30, 31, 30, 31, 31, 30, 31, 30, 31>>[((m - 1) % 12) + 1]
RECURSIVE MonthFirst(_)
MonthFirst(m) == IF m = 1 THEN 1 ELSE MonthFirst(m - 1) + DaysIn(m - 1)
MonthOf(d) == CHOOSE m \in 1..24 : MonthFirst(m) <= d /\ d < MonthFirst(m + 1)
\* date.replace(day=1)
ReplaceDay1(d) == MonthFirst(MonthOf(d))

WindowDays == 40   \* stands for the 365 * 3 days of line 60
FirstDay == 89     \* the earliest `today` of the model: 30 March
DaySpan == 2       \* how many days later a run can take place
PostEvery == 9     \* upstream holds a post of each flair every so many days

\* A month end that is not held back at end_date.
MonthEndUnclamped(cur, last) == ReplaceDay1(ReplaceDay1(cur) + 32) - 1

\* Lines 70-73.
MonthEnd(cur, last) == Min(ReplaceDay1(ReplaceDay1(cur) + 32) - 1, last)

\* A cursor left on the chunk's last day.
NextCursorSameDay(last) == last

\* Lines 82-84: the day after the chunk.
NextCursor(last) == last + 1

\* A failure handler that goes on with the next chunk.
ReturnsOnFailureNot == FALSE

\* Line 90: the handler of CalledProcessError returns.
ReturnsOnFailure == TRUE

\* What the subprocess's crawl gives for a window while upstream does not
\* change: the flair's posts created within [since, until], newest first.
RECURSIVE ScrapeResult(_, _, _)
ScrapeResult(f, since, until) ==
    IF until < since THEN <<>>
    ELSE (IF until % PostEvery = 0
            THEN <<[id |-> <<FLAIRS[f], until>>, created_utc |-> until, ver |-> "a"]>>
            ELSE <<>>) \o ScrapeResult(f, since, until - 1)

\* The state file: json.load gives back what json.dump wrote. A file that is
\* absent loads as {} (lines 29-32), which is `cur` all 0; a file opened for
\* writing and not yet written has torn = TRUE.
NoCursors == [f \in 1..Len(FLAIRS) |-> 0]
EmptyStateFile == [torn |-> FALSE, cur |-> NoCursors]
TornStateFile == [torn |-> TRUE, cur |-> NoCursors]

Chunk(f, since, until) == [flair |-> f, since |-> since, until |-> until]
NoChunk == Chunk(0, 0, 0)
\* A cursor advance: the flair, the cursor before and the cursor after.
Adv(f, from, to) == [flair |-> f, from |-> from, to |-> to]
NoAdv == Adv(0, 0, 0)
InFlight == Chunk(flair, current, month_end)

Stopped == {"idle", "done", "aborted", "killed"}
ScraperSteps == {"crawl", "comments", "snapshot", "merge", "merge_dump"}
Running == ScraperSteps \cup
           {"for", "while", "exited", "save_dump", "failed", "fail_dump"}

BackfillInit ==
    /\ today \in FirstDay..(FirstDay + DaySpan)
    /\ state_file = EmptyStateFile
    /\ bf_pc = "idle"
    /\ state = NoCursors
    /\ end_date = 0
    /\ start_date = 0
    /\ flair = 0
    /\ current = 0
    /\ month_end = 0
    /\ sc_posts = <<>>
    /\ sc_pending = AbsentFile
    /\ sc_done = {}
    /\ bf_loaded = NoCursors
    /\ bf_launches = <<>>
    /\ bf_failed = 0
    /\ bf_lastAdv = NoAdv
    /\ bf_restarted = FALSE
    /\ bf_killed = NoChunk
    /\ bf_merged = {}
    /\ bf_ref = AbsentFile
    /\ bf_persisted = NoCursors

BackfillOff ==
    /\ BackfillInit
    /\ today = FirstDay

noRunHistory ==
    /\ bf_loaded' = NoCursors
    /\ bf_launches' = <<>>
    /\ bf_failed' = 0
    /\ bf_lastAdv' = NoAdv

noLocals ==
    /\ state' = NoCursors
    /\ end_date' = 0
    /\ start_date' = 0
    /\ flair' = 0
    /\ current' = 0
    /\ month_end' = 0
    /\ sc_posts' = <<>>
    /\ sc_pending' = AbsentFile
    /\ sc_done' = {}

\* A day passes between two runs.
NextDay ==
    /\ bf_pc \in Stopped
    /\ today < FirstDay + DaySpan
    /\ today' = today + 1
    /\ bf_pc' = IF bf_pc = "killed" THEN "killed" ELSE "idle"
    /\ noLocals
    /\ noRunHistory
    /\ UNCHANGED <<state_file, bf_restarted, bf_killed, bf_merged, bf_ref,
                   bf_persisted, master>>

\* run_initial starts: lines 56-60. (With a torn state file json.load raises
\* at line 57 and the process ends at once, changing nothing.)
StartRun ==
    /\ bf_pc \in Stopped
    /\ ~state_file.torn
    /\ state' = state_file.cur
    /\ end_date' = today
    /\ start_date' = today - WindowDays
    /\ flair' = 1
    /\ bf_pc' = "for"
    /\ bf_loaded' = state_file.cur
    /\ bf_launches' = <<>>
    /\ bf_failed' = 0
    /\ bf_lastAdv' = NoAdv
    /\ bf_restarted' = (bf_pc = "killed")
    /\ bf_killed' = IF bf_pc = "killed" THEN bf_killed ELSE NoChunk
    /\ current' = 0
    /\ month_end' = 0
    /\ sc_posts' = <<>>
    /\ sc_pending' = AbsentFile
    /\ sc_done' = {}
    /\ UNCHANGED <<today, state_file, bf_merged, bf_ref, bf_persisted, master>>

\* The for loop takes its next flair (lines 62-67), or ends (line 94).
ForFlair ==
    /\ bf_pc = "for"
    /\ IF flair > Len(FLAIRS)
         THEN /\ bf_pc' = "done"
              /\ UNCHANGED current
         ELSE /\ bf_pc' = "while"
              /\ current' = IF state[flair] # 0 THEN state[flair] ELSE start_date
    /\ UNCHANGED <<today, state_file, state, end_date, start_date, flair,
                   month_end, sc_posts, sc_pending, sc_done, bfHistory, master>>

\* The test of the while loop (line 69); a chunk is handed to run_scraper
\* (lines 70-80), or the flair is finished.
WhileTest ==
    /\ bf_pc = "while"
    /\ IF current < end_date
         THEN /\ month_end' = MonthEnd(current, end_date)
              /\ bf_pc' = "crawl"
              /\ bf_launches' =
                    Append(bf_launches, Chunk(flair, current, month_end'))
              /\ sc_done' = {}
              /\ UNCHANGED flair
         ELSE /\ flair' = flair + 1
              /\ bf_pc' = "for"
              /\ UNCHANGED <<month_end, bf_launches, sc_done>>
    /\ UNCHANGED <<today, state_file, state, end_date, start_date, current,
                   sc_posts, sc_pending, bf_loaded, bf_failed, bf_lastAdv,
                   everHistory, master>>

\* The subprocess crawls the window: reddit_flair_scraper.py line 196.
ScraperCrawl ==
    /\ bf_pc = "crawl"
    /\ sc_posts' = ScrapeResult(flair, current, month_end)
    /\ sc_done' = sc_done \cup {"crawl"}
    /\ bf_pc' = "comments"
    /\ UNCHANGED <<today, state_file, state, end_date, start_date, flair, current,
                   month_end, sc_pending, bfHistory, master>>

\* It fetches the comments of every post: lines 199-202.
ScraperComments ==
    /\ bf_pc = "comments"
    /\ sc_done' = sc_done \cup {"comments"}
    /\ bf_pc' = "snapshot"
    /\ UNCHANGED <<today, state_file, state, end_date, start_date, flair, current,
                   month_end, sc_posts, sc_pending, bfHistory, master>>

\* It writes the run snapshot: lines 204-220.
ScraperSnapshot ==
    /\ bf_pc = "snapshot"
    /\ sc_done' = sc_done \cup {"snapshot"}
    /\ bf_pc' = "merge"
    /\ UNCHANGED <<today, state_file, state, end_date, start_date, flair, current,
                   month_end, sc_posts, sc_pending, bfHistory, master>>

\* A request, a parse or the snapshot write raises, or json.dump of the master
\* (line 178) fails after the file was opened for writing: the subprocess
\* exits with an error and check_call raises CalledProcessError (line 51).
ScraperFails ==
    /\ bf_pc \in {"crawl", "comments", "snapshot", "merge_dump"}
    /\ bf_pc' = "failed"
    /\ bf_failed' = Len(bf_launches)
    /\ UNCHANGED <<today, state_file, bfLocals, bf_loaded, bf_launches,
                   bf_lastAdv, everHistory, master>>

\* merge_into_master up to the open for writing: lines 163-177. json.load of a
\* torn master raises, and the subprocess fails.
ScraperMergeOpen ==
    /\ bf_pc = "merge"
    /\ IF master[SUBREDDIT].torn
         THEN /\ bf_pc' = "failed"
              /\ bf_failed' = Len(bf_launches)
              /\ UNCHANGED <<sc_pending, master>>
         ELSE /\ sc_pending' = MergeIntoMaster(master[SUBREDDIT], sc_posts, clock)
              /\ master' = [master EXCEPT ![SUBREDDIT] = TornFile]
              /\ bf_pc' = "merge_dump"
              /\ UNCHANGED bf_failed
    /\ UNCHANGED <<today, state_file, state, end_date, start_date, flair, current,
                   month_end, sc_posts, sc_done, bf_loaded, bf_launches,
                   bf_lastAdv, everHistory>>

\* json.dump writes the master (line 178) and the subprocess exits with 0.
ScraperMergeDump ==
    /\ bf_pc = "merge_dump"
    /\ master' = [master EXCEPT ![SUBREDDIT] = sc_pending]
    /\ sc_done' = sc_done \cup {"merge"}
    /\ bf_pc' = "exited"
    /\ bf_merged' = bf_merged \cup {InFlight}
    /\ bf_ref' = IF InFlight \in bf_merged THEN bf_ref
                 ELSE MergeIntoMaster(bf_ref, sc_posts, clock)
    /\ UNCHANGED <<today, state_file, state, end_date, start_date, flair, current,
                   month_end, sc_posts, sc_pending, runHistory, bf_restarted,
                   bf_killed, bf_persisted>>

\* Lines 82-85, up to save_state's open for writing.
AdvanceCursor ==
    /\ bf_pc = "exited"
    /\ state' = [state EXCEPT ![flair] = NextCursor(month_end)]
    /\ state_file' = TornStateFile
    /\ bf_pc' = "save_dump"
    /\ UNCHANGED <<today, end_date, start_date, flair, current, month_end,
                   sc_posts, sc_pending, sc_done, bfHistory, master>>

\* save_state's json.dump (line 37), then line 92.
SaveAdvanced ==
    /\ bf_pc = "save_dump"
    /\ state_file' = [torn |-> FALSE, cur |-> state]
    /\ bf_lastAdv' = Adv(flair, current, state[flair])
    /\ bf_persisted' = state
    /\ current' = month_end + 1
    /\ bf_pc' = "while"
    /\ UNCHANGED <<today, state, end_date, start_date, flair, month_end,
                   sc_posts, sc_pending, sc_done, bf_loaded, bf_launches,
                   bf_failed, bf_restarted, bf_killed, bf_merged, bf_ref, master>>

\* Lines 87-89, up to save_state's open for writing.
OnFailure ==
    /\ bf_pc = "failed"
    /\ state_file' = TornStateFile
    /\ bf_pc' = "fail_dump"
    /\ UNCHANGED <<today, bfLocals, bfHistory, master>>

\* save_state's json.dump, then the return of line 90.
SaveOnFailure ==
    /\ bf_pc = "fail_dump"
    /\ state_file' = [torn |-> FALSE, cur |-> state]
    /\ bf_persisted' = state
    /\ IF ReturnsOnFailure
         THEN /\ bf_pc' = "aborted"
              /\ UNCHANGED current
         ELSE /\ bf_pc' = "while"
              /\ current' = month_end + 1
    /\ UNCHANGED <<today, state, end_date, start_date, flair, month_end,
                   sc_posts, sc_pending, sc_done, runHistory, bf_restarted,
                   bf_killed, bf_merged, bf_ref, master>>

\* The run is killed (the orchestrator and its subprocess): the files stay as
\* they are, what the processes held in memory is gone.
Kill ==
    /\ bf_pc \in Running
    /\ bf_pc' = "killed"
    /\ bf_killed' = IF bf_pc \in ScraperSteps \cup {"exited", "save_dump"}
                      THEN InFlight ELSE NoChunk
    /\ noLocals
    /\ noRunHistory
    /\ UNCHANGED <<today, state_file, bf_restarted, bf_merged, bf_ref, bf_persisted,
                   master>>

(***************************************************************************)
(* run_daily                         run_reddit_scrapes.py, lines 98-115   *)
(***************************************************************************)
MaxDailyRuns == 3  \* invocations of run_daily the model follows

\* A window that starts later once a run has been recorded.
DailyWindowFromLastRun(st, now) ==
    [since |-> IF st # 0 THEN now - 1 ELSE now - 3, until |-> now]

\* Lines 102-104: the window of an invocation whose loaded state is st.
DailyWindow(st, now) == [since |-> now - 3, until |-> now]

\* A failure handler that stamps and saves the state before it returns.
DailyFileAfterFailureStamped(file, stamp) == stamp

\* Lines 109-111: the handler of CalledProcessError returns without a save.
DailyFileAfterFailure(file, stamp) == file

\* How one run_scraper call (lines 40-51) can end:
\*   ok          the subprocess exits with 0
\*   fail_early  the crawl, a comment fetch or the snapshot write raises
\*   fail_dump   the subprocess dies in json.dump (line 178) after open(.., "w")
\*               (line 177) has emptied the master file
\* A master file that json.load cannot parse fails the merge at line 167.
ScraperOutcomes == {"ok", "fail_early", "fail_dump"}

\* The progress files run_initial can have left behind.
StateFiles ==
    {EmptyStateFile, TornStateFile,
     [torn |-> FALSE, cur |-> [f \in 1..Len(FLAIRS) |-> FirstDay]]}

DailyOff ==
    /\ d_file = 0
    /\ d_pc = "idle"
    /\ d_state = 0
    /\ d_now = 0
    /\ d_flair = 0
    /\ d_runs = 0
    /\ d_requests = <<>>
    /\ d_failed = 0
    /\ d_before = 0
    /\ d_kept = AbsentFile

\* Before the first invocation: no daily progress file, no master file, and
\* whatever progress file run_initial has left.
DailyInit ==
    /\ DailyOff
    /\ today \in FirstDay..(FirstDay + DaySpan)
    /\ state_file \in StateFiles
    /\ bf_pc = "idle"
    /\ state = NoCursors
    /\ end_date = 0
    /\ start_date = 0
    /\ flair = 0
    /\ current = 0
    /\ month_end = 0
    /\ sc_posts = <<>>
    /\ sc_pending = AbsentFile
    /\ sc_done = {}
    /\ bf_loaded = NoCursors
    /\ bf_launches = <<>>
    /\ bf_failed = 0
    /\ bf_lastAdv = NoAdv
    /\ bf_restarted = FALSE
    /\ bf_killed = NoChunk
    /\ bf_merged = {}
    /\ bf_ref = AbsentFile
    /\ bf_persisted = NoCursors

\* A day passes between two invocations.
DailyNextDay ==
    /\ d_pc # "loop" /\ d_pc # "record"
    /\ today < FirstDay + DaySpan
    /\ today' = today + 1
    /\ UNCHANGED <<dailyVars, master>>

\* Lines 99-104: an invocation begins.
DailyStart ==
    /\ d_pc \in {"idle", "done", "aborted"}
    /\ d_runs < MaxDailyRuns
    /\ d_runs' = d_runs + 1
    /\ d_state' = d_file
    /\ d_now' = today
    /\ d_flair' = 1
    /\ d_pc' = "loop"
    /\ d_requests' = <<>>
    /\ d_failed' = 0
    /\ d_before' = d_file
    /\ d_kept' = master[SUBREDDIT]
    /\ UNCHANGED <<d_file, today, master>>

\* Lines 106-111: one turn of the for loop, run_scraper ending as o does.
DailyScrape(o) ==
    /\ d_pc = "loop"
    /\ LET w == DailyWindow(d_state, d_now)
           file == master[SUBREDDIT]
           merged == MergeIntoMaster(file, ScrapeResult(d_flair, w.since, w.until), d_runs)
       IN /\ d_requests' = Append(d_requests, Chunk(d_flair, w.since, w.until))
          /\ IF o = "ok" /\ ~file.torn
               THEN /\ master' = [master EXCEPT ![SUBREDDIT] = merged]
                    /\ d_kept' = merged
                    /\ d_flair' = d_flair + 1
                    /\ d_pc' = IF d_flair = Len(FLAIRS) THEN "record" ELSE "loop"
                    /\ UNCHANGED <<d_failed, d_file>>
               ELSE /\ master' = [master EXCEPT ![SUBREDDIT] =
                                     IF o = "fail_dump" THEN TornFile ELSE file]
                    /\ d_failed' = d_flair
                    /\ d_file' = DailyFileAfterFailure(d_file, d_runs)
                    /\ d_pc' = "aborted"
                    /\ UNCHANGED <<d_kept, d_flair>>
    /\ UNCHANGED <<d_state, d_now, d_runs, d_before, today>>

\* Lines 113-115: the last-run stamp is set and saved.
DailyRecord ==
    /\ d_pc = "record"
    /\ d_state' = d_runs
    /\ d_file' = d_runs
    /\ d_pc' = "done"
    /\ UNCHANGED <<d_now, d_flair, d_runs, d_requests, d_failed, d_before,
                   d_kept, today, master>>

dailyRest == <<retryVars, crawlVars, mergeGhosts, state_file, bf_pc, bfLocals,
               bfHistory, snapVars, commentVars, pipelineVars, writerVars, windowVars>>

DailyNext ==
    \/ DailyNextDay /\ UNCHANGED dailyRest
    \/ DailyStart /\ UNCHANGED dailyRest
    \/ \E o \in ScraperOutcomes : DailyScrape(o) /\ UNCHANGED dailyRest
    \/ DailyRecord /\ UNCHANGED dailyRest

(***************************************************************************)
(* The run snapshot of run_for_flair                                       *)
(*                                  reddit_flair_scraper.py, lines 204-220 *)
(***************************************************************************)
\* Strings are sequences of characters. Subreddit names have letters and
\* underscores; a flair can have a space as well.
SubredditNames == {<<"a">>, <<"a", "_", "b">>}
FlairNames == {<<"b">>, <<"b", " ", "c">>, <<"b", "_", "c">>}

TicksPerSecond == 2   \* instants of the wall clock within one second
MaxTick == 3          \* the last instant of the model
MaxSnapshots == 3     \* snapshot writes the model follows

\* str.replace(' ', '_'), line 205.
RECURSIVE ReplaceSpaces(_)
ReplaceSpaces(str) ==
    IF str = <<>> THEN <<>>
    ELSE <<IF Head(str) = " " THEN "_" ELSE Head(str)>> \o ReplaceSpaces(Tail(str))

\* Line 204: strftime("%Y%m%dT%H%M%SZ") keeps the instant to the second.
Timestamp(t) == <<"T", t \div TicksPerSecond>>

\* Line 205: f"{subreddit}_{flair.replace(' ', '_')}_{timestamp}.json", as
\* the pair of its text before the timestamp and the timestamp.
RunFile(subreddit, fl, t) ==
    <<subreddit \o <<"_">> \o ReplaceSpaces(fl) \o <<"_">>, Timestamp(t)>>

SnapOff ==
    /\ sn_clock = 0
    /\ sn_files = <<>>
    /\ sn_log = <<>>

SnapInit == SnapOff

\* Time passes.
SnapTick ==
    /\ sn_clock < MaxTick
    /\ sn_clock' = sn_clock + 1
    /\ UNCHANGED <<sn_files, sn_log>>

\* Lines 204-220 of the run numbered Len(sn_log) + 1: open(run_path, "w") and
\* json.dump of the run's meta and posts, which stand as the run's number.
\* The run takes time: the clock is one tick further when it has ended.
WriteSnapshot(subreddit, fl) ==
    /\ Len(sn_log) < MaxSnapshots
    /\ sn_clock < MaxTick
    /\ sn_clock' = sn_clock + 1
    /\ LET run_path == RunFile(subreddit, fl, sn_clock)
           content == [subreddit |-> subreddit, flair |-> fl,
                       run |-> Len(sn_log) + 1]
       IN /\ sn_files' = [q \in DOMAIN sn_files \cup {run_path} |->
                             IF q = run_path THEN content ELSE sn_files[q]]
          /\ sn_log' = Append(sn_log, [path |-> run_path, content |-> content])

snapRest == <<retryVars, crawlVars, mergeVars, backfillVars, dailyVars,
              commentVars, pipelineVars, writerVars, windowVars>>

SnapNext ==
    \/ SnapTick /\ UNCHANGED snapRest
    \/ \E subreddit \in SubredditNames, fl \in FlairNames :
          WriteSnapshot(subreddit, fl) /\ UNCHANGED snapRest

(***************************************************************************)
(* parse_comment and fetch_comments  reddit_flair_scraper.py, lines 61-92  *)
(***************************************************************************)
\* A node of the payload: its kind ("t1" a comment, "more" a placeholder for
\* comments not sent), and its data: an id, which stands for author, body,
\* score and created_utc too, and "replies", which upstream sends as "" when
\* there are none, as a listing when there are some, or not at all.
NoKey == [is |-> "none"]
EmptyString == [is |-> "str"]
ListingOf(children) == [is |-> "dict", children |-> children]
Node(kind, id, replies) == [kind |-> kind, id |-> id, replies |-> replies]

Kinds == {"t1", "more"}
CommentIds == {"c1", "c2"}
MaxChildren == 2   \* children of a listing

Leaves == {Node(k, id, r) : k \in Kinds, id \in CommentIds, r \in {NoKey, EmptyString}}
\* Nodes over up to n leaves, and nodes over one of those.
Level1(n) ==
    {Node(k, "m", r) : k \in Kinds,
        r \in {NoKey, EmptyString} \cup {ListingOf(c) : c \in SeqsUpTo(Leaves, n)}}
Level2 ==
    {Node(k, "t", r) : k \in Kinds,
        r \in {EmptyString} \cup {ListingOf(c) : c \in SeqsUpTo(Level1(MaxChildren), 1)}}

\* What safe_request can return for a permalink: the two listings of a thread
\* (the post, then its comments), or JSON of another shape. A thread is wide
\* (several top-level nodes of two levels) or deep (one node of three levels).
Responses ==
    {[is |-> "dict"], [is |-> "list", len |-> 1, children |-> <<>>]}
    \cup {[is |-> "list", len |-> 2, children |-> c] :
            c \in SeqsUpTo(Level1(1), MaxChildren) \cup SeqsUpTo(Level2, 1)}

\* A test that takes every node for a comment.
IsCommentOrMore(node) == TRUE

\* Line 62: node.get("kind") != "t1" gives None.
IsComment(node) == node.kind = "t1"

\* Lines 61-79, and the loops of lines 75-78 and 87-90 over children from
\* child i on, acc being the list appended to.
RECURSIVE parse_comment(_)
RECURSIVE ParseChildren(_, _, _)
parse_comment(node) ==
    IF ~IsComment(node) THEN None
    ELSE Some([id |-> node.id,
               replies |-> IF node.replies.is = "dict"
                             THEN ParseChildren(node.replies.children, 1, <<>>)
                             ELSE <<>>])

ParseChildren(children, i, acc) ==
    IF i > Len(children) THEN acc
    ELSE LET parsed == parse_comment(children[i])
         IN ParseChildren(children, i + 1,
                          IF parsed # None THEN Append(acc, parsed[1]) ELSE acc)

CommentsOff ==
    /\ cm_data = [is |-> "dict"]
    /\ cm_pc = "off"
    /\ cm_comments = <<>>
    /\ cm_sleeps = 0

CommentsInit ==
    /\ cm_data \in Responses
    /\ cm_pc = "call"
    /\ cm_comments = <<>>
    /\ cm_sleeps = 0

\* Lines 83-92 when safe_request returns cm_data.
FetchComments ==
    /\ cm_pc = "call"
    /\ cm_comments' = IF cm_data.is = "list" /\ cm_data.len > 1
                        THEN ParseChildren(cm_data.children, 1, <<>>)
                        ELSE <<>>
    /\ cm_sleeps' = cm_sleeps + 1
    /\ cm_pc' = "returned"
    /\ UNCHANGED cm_data

\* Line 84 when safe_request raises.
FetchCommentsFails ==
    /\ cm_pc = "call"
    /\ cm_pc' = "raised"
    /\ UNCHANGED <<cm_data, cm_comments, cm_sleeps>>

commentsRest == <<retryVars, crawlVars, mergeVars, backfillVars, dailyVars,
                  snapVars, pipelineVars, writerVars, windowVars>>

CommentsNext ==
    \/ FetchComments /\ UNCHANGED commentsRest
    \/ FetchCommentsFails /\ UNCHANGED commentsRest

(***************************************************************************)
(* run_for_flair                    reddit_flair_scraper.py, lines 184-223 *)
(***************************************************************************)
\* A post as scrape_posts returns it: "comments" is None (line 142).
Post(id, v) ==
    [id |-> id, created_utc |-> CreatedOf(id), ver |-> v, comments |-> None]

\* What scrape_posts can return: posts of the feed, no id twice (line 129).
CrawlResults ==
    {l \in SeqsUpTo({Post(id, "a") : id \in PostIds}, Cardinality(PostIds)) :
        NoRepeat(l)}

\* What fetch_comments can return for a post: no comment, or one.
CommentLists == {<<>>, <<[id |-> "c1", replies |-> <<>>]>>}

\* A master file that holds an older version of post p1, with its comments.
OlderMaster ==
    MergeIntoMaster(AbsentFile,
                    <<[Post("p1", "b") EXCEPT !.comments = Some(<<>>)]>>, 0)

Event(what, id) == [what |-> what, id |-> id]

PipelineOff ==
    /\ pl_pc = "off"
    /\ pl_merge = FALSE
    /\ pl_posts = <<>>
    /\ pl_i = 0
    /\ pl_crawled = <<>>
    /\ pl_log = <<>>
    /\ pl_snaps = <<>>
    /\ pl_before = AbsentFile

\* A call of run_for_flair begins, on a master file that is not there yet or
\* on one that earlier runs have written.
PipelineInit ==
    /\ pl_pc = "start"
    /\ pl_merge \in BOOLEAN
    /\ pl_posts = <<>>
    /\ pl_i = 0
    /\ pl_crawled = <<>>
    /\ pl_log = <<>>
    /\ pl_snaps = <<>>
    /\ master \in {[s \in Subreddits |-> IF s = SUBREDDIT THEN f ELSE AbsentFile] :
                     f \in {AbsentFile, OlderMaster}}
    /\ pl_before = master[SUBREDDIT]
    /\ clock = 0
    /\ new_posts = <<>>
    /\ m_count = [s \in Subreddits |-> 0]
    /\ m_first = [s \in Subreddits |-> AbsentFile]
    /\ m_latest = [s \in Subreddits |-> <<>>]
    /\ m_overwrote = FALSE

\* Lines 195-196: scrape_posts returns l.
PipelineCrawl(l) ==
    /\ pl_pc = "start"
    /\ pl_posts' = l
    /\ pl_crawled' = l
    /\ pl_i' = 1
    /\ pl_log' = Append(pl_log, Event("crawl", "-"))
    /\ pl_pc' = "comments"
    /\ UNCHANGED <<pl_merge, pl_snaps, pl_before, master>>

\* A turn of the for loop that passes over its post, leaving it without
\* comments.
PipelineFetchSkips(c) ==
    /\ pl_pc = "comments"
    /\ pl_i <= Len(pl_posts)
    /\ pl_log' = Append(pl_log, Event("fetch_comments", pl_posts[pl_i].id))
    /\ pl_i' = pl_i + 1
    /\ UNCHANGED <<pl_pc, pl_merge, pl_posts, pl_crawled, pl_snaps, pl_before,
                   master>>

\* Lines 199-200: one turn of the for loop, fetch_comments returning c.
PipelineFetch(c) ==
    /\ pl_pc = "comments"
    /\ pl_i <= Len(pl_posts)
    /\ pl_posts' = [pl_posts EXCEPT ![pl_i].comments = Some(c)]
    /\ pl_log' = Append(pl_log, Event("fetch_comments", pl_posts[pl_i].id))
    /\ pl_i' = pl_i + 1
    /\ UNCHANGED <<pl_pc, pl_merge, pl_crawled, pl_snaps, pl_before, master>>

\* A snapshot written while posts still wait for their comments.
PipelineSnapshotEarly ==
    /\ pl_pc = "comments"
    /\ pl_snaps' = Append(pl_snaps, pl_posts)
    /\ pl_log' = Append(pl_log, Event("snapshot", "-"))
    /\ pl_pc' = IF pl_merge THEN "merge" ELSE "done"
    /\ UNCHANGED <<pl_merge, pl_posts, pl_i, pl_crawled, pl_before, master>>

\* A snapshot step that goes on to the merge whatever the flag says.
PipelineSnapshotThenMerge ==
    /\ pl_pc = "comments"
    /\ pl_i > Len(pl_posts)
    /\ pl_snaps' = Append(pl_snaps, pl_posts)
    /\ pl_log' = Append(pl_log, Event("snapshot", "-"))
    /\ pl_pc' = "merge"
    /\ UNCHANGED <<pl_merge, pl_posts, pl_i, pl_crawled, pl_before, master>>

\* Lines 204-220, when the for loop has ended: the run snapshot is written.
PipelineSnapshot ==
    /\ pl_pc = "comments"
    /\ pl_i > Len(pl_posts)
    /\ pl_snaps' = Append(pl_snaps, pl_posts)
    /\ pl_log' = Append(pl_log, Event("snapshot", "-"))
    /\ pl_pc' = IF pl_merge THEN "merge" ELSE "done"
    /\ UNCHANGED <<pl_merge, pl_posts, pl_i, pl_crawled, pl_before, master>>

\* Lines 222-223: merge_into_master(subreddit, posts).
PipelineMerge ==
    /\ pl_pc = "merge"
    /\ master' = [master EXCEPT ![SUBREDDIT] = MergeIntoMaster(@, pl_posts, clock)]
    /\ pl_log' = Append(pl_log, Event("merge", "-"))
    /\ pl_pc' = "done"
    /\ UNCHANGED <<pl_merge, pl_posts, pl_i, pl_crawled, pl_snaps, pl_before>>

\* scrape_posts, fetch_comments, the snapshot write or the merge raises.
PipelineFails ==
    /\ pl_pc \in {"start", "comments", "merge"}
    /\ pl_pc' = "raised"
    /\ UNCHANGED <<pl_merge, pl_posts, pl_i, pl_crawled, pl_log, pl_snaps, pl_before,
                   master>>

\* Lines 177-178 of the merge: json.dump fails after open(master_path, "w")
\* has emptied the file.
PipelineMergeDumpFails ==
    /\ pl_pc = "merge"
    /\ master' = [master EXCEPT ![SUBREDDIT] = TornFile]
    /\ pl_log' = Append(pl_log, Event("merge", "-"))
    /\ pl_pc' = "raised"
    /\ UNCHANGED <<pl_merge, pl_posts, pl_i, pl_crawled, pl_snaps, pl_before>>

pipelineRest == <<retryVars, crawlVars, mergeGhosts, backfillVars, dailyVars,
                  snapVars, commentVars, writerVars, windowVars>>

PipelineNext ==
    \/ \E l \in CrawlResults : PipelineCrawl(l) /\ UNCHANGED pipelineRest
    \/ \E c \in CommentLists : PipelineFetch(c) /\ UNCHANGED pipelineRest
    \/ PipelineSnapshot /\ UNCHANGED pipelineRest
    \/ PipelineMerge /\ UNCHANGED pipelineRest
    \/ PipelineFails /\ UNCHANGED pipelineRest
    \/ PipelineMergeDumpFails /\ UNCHANGED pipelineRest

(***************************************************************************)
(* Two processes in merge_into_master on the master file of one subreddit  *)
(*                                  reddit_flair_scraper.py, lines 162-180 *)
(***************************************************************************)
Writers == {1, 2}
Other(w) == 3 - w

\* The lists the two processes merge: one item each.
WriterLists == {<<p>> : p \in MergeItems}

\* A master file an earlier merge has written.
StoredMaster == MergeIntoMaster(AbsentFile, <<Item("p1", "b")>>, 0)

WritersOff ==
    /\ cw_pc = [w \in Writers |-> "off"]
    /\ cw_list = [w \in Writers |-> <<>>]
    /\ cw_mem = [w \in Writers |-> AbsentFile]
    /\ cw_overlap = FALSE
    /\ cw_bothLoaded = FALSE
    /\ cw_last = 0
    /\ cw_initial = AbsentFile

WritersInit ==
    /\ cw_pc = [w \in Writers |-> "idle"]
    /\ cw_list \in [Writers -> WriterLists]
    /\ cw_mem = [w \in Writers |-> AbsentFile]
    /\ cw_overlap = FALSE
    /\ cw_bothLoaded = FALSE
    /\ cw_last = 0
    /\ master \in {[s \in Subreddits |-> IF s = SUBREDDIT THEN f ELSE AbsentFile] :
                     f \in {AbsentFile, StoredMaster}}
    /\ cw_initial = master[SUBREDDIT]
    /\ clock = 0
    /\ new_posts = <<>>
    /\ m_count = [s \in Subreddits |-> 0]
    /\ m_first = [s \in Subreddits |-> AbsentFile]
    /\ m_latest = [s \in Subreddits |-> <<>>]
    /\ m_overwrote = FALSE

\* Lines 165-175 in process w: the file is loaded, or found missing, and the
\* posts are upserted into the dict in memory. A file the other process has
\* opened for writing and not yet written fails json.load.
WriterLoad(w) ==
    /\ cw_pc[w] = "idle"
    /\ IF master[SUBREDDIT].torn
         THEN /\ cw_pc' = [cw_pc EXCEPT ![w] = "raised"]
              /\ UNCHANGED cw_mem
         ELSE /\ cw_pc' = [cw_pc EXCEPT ![w] = "loaded"]
              /\ cw_mem' = [cw_mem EXCEPT ![w] =
                               MergeIntoMaster(master[SUBREDDIT], cw_list[w], clock)]
    /\ cw_overlap' = (cw_overlap \/ cw_pc[Other(w)] \in {"loaded", "opened"})
    /\ cw_bothLoaded' = (~master[SUBREDDIT].torn /\ cw_pc[Other(w)] = "loaded")
    /\ UNCHANGED <<cw_list, cw_last, cw_initial, master>>

\* Line 177 in process w: open(master_path, "w") empties the file.
WriterOpen(w) ==
    /\ cw_pc[w] = "loaded"
    /\ cw_pc' = [cw_pc EXCEPT ![w] = "opened"]
    /\ master' = [master EXCEPT ![SUBREDDIT] = TornFile]
    /\ UNCHANGED <<cw_list, cw_mem, cw_overlap, cw_bothLoaded, cw_last, cw_initial>>

\* Line 178 in process w: json.dump writes the dict.
WriterDump(w) ==
    /\ cw_pc[w] = "opened"
    /\ cw_pc' = [cw_pc EXCEPT ![w] = "done"]
    /\ master' = [master EXCEPT ![SUBREDDIT] = cw_mem[w]]
    /\ cw_last' = w
    /\ UNCHANGED <<cw_list, cw_mem, cw_overlap, cw_bothLoaded, cw_initial>>

writersRest == <<retryVars, crawlVars, mergeGhosts, backfillVars, dailyVars,
                 snapVars, commentVars, pipelineVars, windowVars>>

WritersNext ==
    \/ \E w \in Writers : WriterLoad(w) /\ UNCHANGED writersRest
    \/ \E w \in Writers : WriterOpen(w) /\ UNCHANGED writersRest
    \/ \E w \in Writers : WriterDump(w) /\ UNCHANGED writersRest

(***************************************************************************)
(* The time window of one invocation: main parses the command line and     *)
(* run_for_flair turns the arguments into the since_ts and until_ts it     *)
(* hands to scrape_posts.  Dates are day numbers and a timestamp counts    *)
(* seconds, SecondsPerDay of them to the day.                              *)
(***************************************************************************)
\* How many seconds the model's day has; stands for the 86400 of line 189.
SecondsPerDay == 2

\* The last date a command line names.
MaxDate == 2

\* The largest --days a command line gives.
MaxDays == 2

\* epoch_from_iso: midnight of the date, in seconds.
epoch_from_iso(date) == date * SecondsPerDay

\* What --days, --since and --until can be given as: argparse leaves an
\* argument that was not given at None.
DaysArgs == {None} \cup {Some(n) : n \in 0..MaxDays}
DateArgs == {None} \cup {Some(d) : d \in 1..MaxDate}

\* The window run_for_flair computes from its arguments: `if days` is false
\* of None and of 0, `if since` and `if until` only of None (a date given is
\* a string that is not empty).
Window(days, since, until, now) ==
    IF Truthy(days)
    THEN [since_ts |-> Some(now - days[1] * SecondsPerDay), until_ts |-> Some(now)]
    ELSE [since_ts |-> IF since # None THEN Some(epoch_from_iso(since[1]))
                       ELSE None,
          until_ts |-> IF until # None
                       THEN Some(epoch_from_iso(until[1]) + (SecondsPerDay - 1))
                       ELSE None]

WindowOff ==
    /\ a_days = None
    /\ a_since = None
    /\ a_until = None
    /\ wn_now = 0
    /\ wn_pc = "off"
    /\ wn_since_ts = None
    /\ wn_until_ts = None

\* A command line, and the wall clock: some second of the day after MaxDate.
WindowInit ==
    /\ a_days \in DaysArgs
    /\ a_since \in DateArgs
    /\ a_until \in DateArgs
    /\ wn_now \in {epoch_from_iso(MaxDate + 1) + k : k \in 0..(SecondsPerDay - 1)}
    /\ wn_pc = "cli"
    /\ wn_since_ts = None
    /\ wn_until_ts = None

\* main: parse_args accepts every combination of --days, --since and --until
\* (the parser declares no mutually exclusive group and main tests none) and
\* main calls run_for_flair with all three.
ParseArgs ==
    /\ wn_pc = "cli"
    /\ wn_pc' = "parsed"
    /\ UNCHANGED <<a_days, a_since, a_until, wn_now, wn_since_ts, wn_until_ts>>

\* run_for_flair up to its call of scrape_posts.
ResolveWindow ==
    /\ wn_pc = "parsed"
    /\ LET w == Window(a_days, a_since, a_until, wn_now)
       IN /\ wn_since_ts' = w.since_ts
          /\ wn_until_ts' = w.until_ts
    /\ wn_pc' = "crawl"
    /\ UNCHANGED <<a_days, a_since, a_until, wn_now>>

windowRest == <<retryVars, crawlVars, mergeVars, backfillVars, dailyVars,
                snapVars, commentVars, pipelineVars, writerVars>>

WindowNext ==
    \/ ParseArgs /\ UNCHANGED windowRest
    \/ ResolveWindow /\ UNCHANGED windowRest

\* The command line gives the last-N-days form, the since/until form.
DaysForm == a_days # None
DatesForm == a_since # None \/ a_until # None

\* The window the since/until form denotes: from midnight of the since date
\* to the last second of the until date, unbounded where a date is absent.
DatesWindow ==
    [since_ts |-> IF a_since = None THEN None ELSE Some(epoch_from_iso(a_since[1])),
     until_ts |-> IF a_until = None THEN None
                  ELSE Some(epoch_from_iso(a_until[1] + 1) - 1)]

\* The window the last-N-days form denotes: the N days that end now.
DaysWindow ==
    [since_ts |-> Some(wn_now - a_days[1] * SecondsPerDay), until_ts |-> Some(wn_now)]

\* C23: the two forms of the window are mutually exclusive: an invocation
\* that gives both --days and --since/--until never reaches the crawl, and
\* an invocation that reaches it crawls exactly the window its form denotes.
C23_WindowFormsExclusive ==
    wn_pc = "crawl" =>
        /\ ~(DaysForm /\ DatesForm)
        /\ DaysForm =>
               [since_ts |-> wn_since_ts, until_ts |-> wn_until_ts] = DaysWindow
        /\ ~DaysForm =>
               [since_ts |-> wn_since_ts, until_ts |-> wn_until_ts] = DatesWindow

\* An invocation with --days and with --since and --until is crawled, over
\* the window of --days: the dates are dropped without a word.
C23_BothFormsRun ==
    ~(/\ wn_pc = "crawl"
      /\ DaysForm /\ a_since # None /\ a_until # None
      /\ [since_ts |-> wn_since_ts, until_ts |-> wn_until_ts] = DaysWindow
      /\ DaysWindow # DatesWindow)

(***************************************************************************)
(* The failure of a step of run_for_flair                                  *)
(***************************************************************************)
\* The run has ended in the exception of scrape_posts (nothing is logged
\* yet) or of the fetch_comments of a post (the for loop is still within the
\* list).
CrawlOrFetchFailed ==
    /\ pl_pc = "raised"
    /\ pl_log = <<>> \/ pl_i <= Len(pl_posts)

HasComments(l) == \A i \in 1..Len(l) : l[i].comments # None

\* C26. All or nothing: when the crawl or the comment fetch of a post fails,
\* the run has written no snapshot and every master file is as it was when
\* the run began; every post of a snapshot written, and every post the run
\* hands to the merge and the merge stores, carries its list of comments,
\* never None.
C26_AllOrNothing ==
    pl_pc # "off" =>
        /\ CrawlOrFetchFailed =>
              /\ pl_snaps = <<>>
              /\ master[SUBREDDIT] = pl_before
              /\ \A s \in Subreddits \ {SUBREDDIT} : master[s] = AbsentFile
        /\ \A n \in 1..Len(pl_snaps) : HasComments(pl_snaps[n])
        /\ pl_pc = "merge" => HasComments(pl_posts)
        /\ master[SUBREDDIT] # pl_before =>
              /\ HasComments(pl_posts)
              /\ ~master[SUBREDDIT].torn =>
                    \A k \in DOMAIN master[SUBREDDIT].posts :
                        master[SUBREDDIT].posts[k].comments # None

\* A run with merge, on a master file that was there, has ended in the
\* failure of the comment fetch of its second post, the first having got its
\* comments.
C26_Witness ==
    /\ CrawlOrFetchFailed
    /\ pl_merge
    /\ pl_before.exists
    /\ Len(pl_posts) = 2
    /\ pl_i = 2
    /\ pl_posts[1].comments # None
    /\ pl_posts[2].comments = None

(***************************************************************************)
(* Specifications                                                          *)
(***************************************************************************)
\* The machines other than the four of the scraper's core are not running.
LaterOff ==
    DailyOff /\ SnapOff /\ CommentsOff /\ PipelineOff /\ WritersOff /\ WindowOff

InitDaily ==
    /\ DailyInit
    /\ RetryOff /\ CrawlOff /\ MergeOff /\ SnapOff /\ CommentsOff /\ PipelineOff
    /\ WritersOff /\ WindowOff

SpecDaily == InitDaily /\ [][DailyNext]_vars

InitSnapshot ==
    /\ SnapInit
    /\ RetryOff /\ CrawlOff /\ MergeOff /\ BackfillOff /\ DailyOff /\ CommentsOff
    /\ PipelineOff /\ WritersOff /\ WindowOff

InitComments ==
    /\ CommentsInit
    /\ RetryOff /\ CrawlOff /\ MergeOff /\ BackfillOff /\ DailyOff /\ SnapOff
    /\ PipelineOff /\ WritersOff /\ WindowOff

SpecComments == InitComments /\ [][CommentsNext]_vars

InitPipeline ==
    /\ PipelineInit
    /\ RetryOff /\ CrawlOff /\ BackfillOff /\ DailyOff /\ SnapOff /\ CommentsOff
    /\ WritersOff /\ WindowOff

SpecPipeline == InitPipeline /\ [][PipelineNext]_vars

InitWriters ==
    /\ WritersInit
    /\ RetryOff /\ CrawlOff /\ BackfillOff /\ DailyOff /\ SnapOff /\ CommentsOff
    /\ PipelineOff /\ WindowOff

SpecWriters == InitWriters /\ [][WritersNext]_vars

SpecSnapshot == InitSnapshot /\ [][SnapNext]_vars

InitWindow ==
    /\ WindowInit
    /\ RetryOff /\ CrawlOff /\ MergeOff /\ BackfillOff /\ DailyOff /\ SnapOff
    /\ CommentsOff /\ PipelineOff /\ WritersOff

SpecWindow == InitWindow /\ [][WindowNext]_vars

RetryNext ==
    \/ StartRequest /\ UNCHANGED <<crawlVars, mergeVars, backfillVars, laterVars>>
    \/ \E o \in Outcomes : Attempt(o) /\ UNCHANGED <<crawlVars, mergeVars, backfillVars, laterVars>>

InitRetry == RetryInit /\ CrawlOff /\ MergeOff /\ BackfillOff /\ LaterOff

SpecRetry == InitRetry /\ [][RetryNext]_vars

CrawlNext ==
    \/ CrawlFetchFails /\ UNCHANGED <<retryVars, mergeVars, backfillVars, laterVars>>
    \/ CrawlPage /\ UNCHANGED <<retryVars, mergeVars, backfillVars, laterVars>>

InitCrawl == CrawlInit /\ RetryOff /\ MergeOff /\ BackfillOff /\ LaterOff

MergeNext ==
    \/ Tick /\ UNCHANGED <<retryVars, crawlVars, backfillVars, laterVars>>
    \/ NewRun /\ UNCHANGED <<retryVars, crawlVars, backfillVars, laterVars>>
    \/ \E p \in MergeItems : Collect(p) /\ UNCHANGED <<retryVars, crawlVars, backfillVars, laterVars>>
    \/ \E s \in Subreddits : Merge(s) /\ UNCHANGED <<retryVars, crawlVars, backfillVars, laterVars>>

InitMerge == MergeInit /\ RetryOff /\ CrawlOff /\ BackfillOff /\ LaterOff

SpecMerge == InitMerge /\ [][MergeNext]_vars

bfRest == <<retryVars, crawlVars, mergeGhosts, laterVars>>

BackfillNext ==
    \/ NextDay /\ UNCHANGED bfRest
    \/ StartRun /\ UNCHANGED bfRest
    \/ ForFlair /\ UNCHANGED bfRest
    \/ WhileTest /\ UNCHANGED bfRest
    \/ ScraperCrawl /\ UNCHANGED bfRest
    \/ ScraperComments /\ UNCHANGED bfRest
    \/ ScraperSnapshot /\ UNCHANGED bfRest
    \/ ScraperFails /\ UNCHANGED bfRest
    \/ ScraperMergeOpen /\ UNCHANGED bfRest
    \/ ScraperMergeDump /\ UNCHANGED bfRest
    \/ AdvanceCursor /\ UNCHANGED bfRest
    \/ SaveAdvanced /\ UNCHANGED bfRest
    \/ OnFailure /\ UNCHANGED bfRest
    \/ SaveOnFailure /\ UNCHANGED bfRest
    \/ Kill /\ UNCHANGED bfRest

InitBackfill == BackfillInit /\ RetryOff /\ CrawlOff /\ MergeOff /\ LaterOff

SpecBackfill == InitBackfill /\ [][BackfillNext]_vars

SpecCrawl == InitCrawl /\ [][CrawlNext]_vars

(***************************************************************************)
(* Properties of safe_request                                              *)
(***************************************************************************)
NumCaught(h) == Cardinality({i \in 1..Len(h) : IsRequestException(h[i])})

\* C5. Retry semantics: a call that fails k < MAX_RETRIES times and then
\* succeeds returns after exactly k+1 attempts and exactly k backoff waits; a
\* call that fails MAX_RETRIES times in a row raises the exhaustion error after
\* exactly MAX_RETRIES attempts, and no call ever makes more attempts than that.
C5_RetrySemantics ==
    /\ Len(rq_hist) <= MAX_RETRIES
    /\ rq_pc = "returned" =>
         /\ NumCaught(rq_hist) < MAX_RETRIES
         /\ Len(rq_hist) = NumCaught(rq_hist) + 1
         /\ Len(rq_sleeps) = NumCaught(rq_hist)
    /\ NumCaught(rq_hist) = MAX_RETRIES =>
         /\ rq_pc = "raised_runtime"
         /\ Len(rq_hist) = MAX_RETRIES
    /\ rq_pc = "raised_runtime" => NumCaught(rq_hist) = MAX_RETRIES

\* A call that succeeded at its third attempt, after two failures.
C5_Witness ==
    /\ rq_pc = "returned"
    /\ NumCaught(rq_hist) = 2
    /\ Len(rq_sleeps) = 2

\* The failures the fetch client is said not to retry.
NotTransient == {"http4xx", "badjson_req", "badjson_val"}

\* C6. Only transient faults are retried: an attempt that fails with a client
\* error or an unparseable body is the last attempt of its call, which ends
\* with a fatal error and without a backoff wait after that attempt.
C6_OnlyTransientRetried ==
    \A i \in 1..Len(rq_hist) :
        rq_hist[i] \in NotTransient =>
            /\ Len(rq_hist) = i
            /\ Len(rq_sleeps) = i - 1
            /\ rq_pc \in {"raised_other", "raised_runtime"}

(***************************************************************************)
(* Properties of scrape_posts                                              *)
(***************************************************************************)
\* Inside the inclusive window [since_ts, until_ts], an absent bound being no
\* bound.
InWindow(p) ==
    /\ since_ts # None => since_ts[1] <= p.created_utc
    /\ until_ts # None => p.created_utc <= until_ts[1]

NoDuplicateIds(l) ==
    \A i, j \in 1..Len(l) : l[i].id = l[j].id => i = j

\* C3. Crawler bound correctness: every item scrape_posts returns lies within
\* [since, until], whatever the bounds (absent, or any epoch value, 0
\* included), and no id is returned twice.
C3_BoundCorrectness ==
    cr_pc = "returned" =>
        /\ \A i \in 1..Len(posts) : InWindow(posts[i])
        /\ NoDuplicateIds(posts)

\* The pages a crawl that follows every cursor can be served: page 1, then
\* the page each cursor names.
RECURSIVE PagesFrom(_, _)
PagesFrom(k, seen) ==
    IF k = 0 \/ k \in seen THEN seen ELSE PagesFrom(feed[k].after, seen \cup {k})

\* The unique in-window items the upstream feed holds.
Available ==
    {id \in PostIds :
        \E k \in PagesFrom(1, {}) : \E i \in 1..Len(feed[k].children) :
            feed[k].children[i].id = id /\ InWindow(feed[k].children[i])}

\* The feed as upstream's sort=new serves it: page k leads to page k+1 or
\* ends the listing, and the items it lists get strictly older.
RECURSIVE Listing(_)
Listing(k) ==
    feed[k].children \o (IF feed[k].after = 0 THEN <<>> ELSE Listing(feed[k].after))

NewestFirst ==
    /\ \A k \in 1..NPages : feed[k].after \in {0, k + 1} \cap (0..NPages)
    /\ \A i, j \in 1..Len(Listing(1)) :
          i < j => Listing(1)[i].created_utc > Listing(1)[j].created_utc

\* C4. Max-count correctness: with max_posts = K (K >= 1, bounds that are
\* absent or non-zero, and a feed in newest-first order), scrape_posts returns
\* exactly min(K, unique in-window items of the feed) items, and it requests
\* no page once it holds K.
C4_MaxCount ==
    (/\ max_posts # None /\ max_posts[1] >= 1
     /\ since_ts # Some(0) /\ until_ts # Some(0)
     /\ NewestFirst) =>
        /\ cr_pc = "returned" =>
             Len(posts) = Min(max_posts[1], Cardinality(Available))
        /\ cr_pc = "loop" => Len(posts) < max_posts[1]

(***************************************************************************)
(* Properties of merge_into_master                                         *)
(***************************************************************************)
\* C1. Merge idempotence: merging the item list a second (third, ...) time into
\* the same subreddit leaves the id -> item map and the total count as they
\* were after the first merge of that list.
C1_MergeIdempotent ==
    \A s \in Subreddits :
        m_count[s] >= 1 =>
            /\ master[s].posts = m_first[s].posts
            /\ master[s].total_posts = m_first[s].total_posts

\* A list of two items has been merged twice into a subreddit.
C1_Witness ==
    \E s \in Subreddits : m_count[s] = 2 /\ Len(new_posts) = 2

\* C2. Merge recency: after any sequence of merges a master file holds, for
\* every id ever merged into it, the version that was merged last.
C2_MergeRecency ==
    \A s \in Subreddits :
        \A k \in DOMAIN m_latest[s] :
            /\ k \in DOMAIN master[s].posts
            /\ master[s].posts[k] = m_latest[s][k]

\* A merge has just replaced a stored version of an id by a different one.
C2_Witness ==
    /\ m_overwrote
    /\ \E s \in Subreddits : m_count[s] >= 1 /\ master[s].total_posts >= 1

(***************************************************************************)
(* Properties of run_initial                                               *)
(***************************************************************************)
AllSteps == {"crawl", "comments", "snapshot", "merge"}

\* Where a run resumes a flair: at its cursor, or at start if it has none.
EffectiveCursor(cur, f, start) == IF cur[f] # 0 THEN cur[f] ELSE start

\* The last day of the calendar month of day d.
LastDayOfMonth(d) == MonthFirst(MonthOf(d)) + DaysIn(MonthOf(d)) - 1

\* C7. A cursor is advanced past a chunk only after the chunk's crawl, comment
\* fetch, snapshot write and merge have all succeeded; it is then the first
\* day after the chunk, and it is in the progress file before the next
\* chunk's crawl begins.
C7_CursorAfterSuccess ==
    /\ \A f \in 1..Len(FLAIRS) :
          /\ state_file.cur[f] # 0 =>
                \E c \in bf_merged : c.flair = f /\ state_file.cur[f] = c.until + 1
          /\ state[f] # 0 =>
                \E c \in bf_merged : c.flair = f /\ state[f] = c.until + 1
    /\ bf_pc \in {"exited", "save_dump"} =>
          /\ sc_done = AllSteps
          /\ InFlight \in bf_merged
    /\ bf_pc \in ScraperSteps =>
          /\ ~state_file.torn
          /\ state_file.cur = state
          /\ EffectiveCursor(state_file.cur, flair, start_date) = current

\* The crawl of a chunk is under way after the run has advanced a cursor.
C7_Witness ==
    /\ bf_pc = "crawl"
    /\ bf_lastAdv # NoAdv
    /\ bf_lastAdv.flair = flair
    /\ state_file.cur[flair] = current

\* C8. Backfill fail-fast: when a chunk fails, the run attempts no further
\* chunk and stops; the progress file then holds the run's progress state, in
\* which the failed chunk's flair still resumes at the failed chunk's start.
C8_FailFast ==
    /\ bf_failed # 0 =>
          /\ Len(bf_launches) = bf_failed
          /\ bf_pc \in {"failed", "fail_dump", "aborted"}
    /\ bf_pc = "aborted" =>
          /\ bf_failed # 0
          /\ ~state_file.torn
          /\ state_file.cur = state
          /\ LET c == bf_launches[bf_failed]
             IN EffectiveCursor(state_file.cur, c.flair, start_date) = c.since

\* A run has stopped at the failure of a chunk that was not its first.
C8_Witness ==
    /\ bf_pc = "aborted"
    /\ bf_failed >= 2
    /\ flair < Len(FLAIRS)

\* The chunks a run requests for a flair start at or after the cursor it
\* loaded, in strictly ascending order.
RequestsAscend ==
    \A i \in 1..Len(bf_launches) :
        LET l == bf_launches[i]
        IN /\ bf_loaded[l.flair] # 0 => l.since >= bf_loaded[l.flair]
           /\ l.since <= l.until
           /\ \A j \in 1..(i - 1) :
                 bf_launches[j].flair = l.flair => bf_launches[j].until < l.since

\* C9, as claimed. Backfill resumption: a run that loaded a cursor requests
\* only chunks at or after it, in ascending order, and every completed chunk
\* moves the cursor on by exactly one month.
C9_ExactlyOneMonth ==
    /\ RequestsAscend
    /\ (bf_lastAdv # NoAdv /\ bf_loaded[bf_lastAdv.flair] # 0) =>
          MonthOf(bf_lastAdv.to) = MonthOf(bf_lastAdv.from) + 1

\* C9, amended. A run that loaded a cursor requests only chunks at or after
\* it, in ascending order, and every completed chunk moves the persisted
\* cursor to the day after that chunk: the first day of the next month, or the
\* day after end_date when the chunk is cut at end_date.
C9_Resumption ==
    /\ RequestsAscend
    /\ bf_lastAdv # NoAdv =>
          /\ bf_lastAdv.to =
                Min(LastDayOfMonth(bf_lastAdv.from), end_date) + 1
          /\ bf_lastAdv.to > bf_lastAdv.from
          /\ ~state_file.torn => state_file.cur[bf_lastAdv.flair] = bf_lastAdv.to

\* A run that loaded a cursor has completed the chunk that is cut at end_date.
C9_Witness ==
    /\ bf_lastAdv # NoAdv
    /\ bf_loaded[bf_lastAdv.flair] # 0
    /\ bf_lastAdv.to = end_date + 1
    /\ bf_lastAdv.to < LastDayOfMonth(bf_lastAdv.from) + 1
    /\ ~state_file.torn

\* The first chunk this run requested for flair f, if any.
FirstLaunchOf(f) ==
    {bf_launches[i] : i \in {i \in 1..Len(bf_launches) :
        /\ bf_launches[i].flair = f
        /\ \A j \in 1..(i - 1) : bf_launches[j].flair # f}}

\* The run has ended and no failure of upstream has stopped it: it has
\* finished, or it has stopped at a chunk whose crawl, comment fetch and
\* snapshot write succeeded.
EndedUnhindered ==
    \/ bf_pc = "done"
    \/ bf_pc = "aborted" /\ sc_done = AllSteps \ {"merge"}

\* C10. Restart safety: a run started after a run was killed in a chunk takes
\* up that chunk again, and when it has ended (upstream answering as before)
\* the master holds what merging every chunk exactly once gives.
C10_RestartSafe ==
    /\ (bf_restarted /\ bf_killed # NoChunk) =>
          \A l \in FirstLaunchOf(bf_killed.flair) :
              \/ l.since = bf_killed.since
              \/ bf_loaded[l.flair] = 0 /\ l.since = start_date
    /\ (bf_restarted /\ EndedUnhindered) =>
          /\ ~master[SUBREDDIT].torn
          /\ master[SUBREDDIT].posts = bf_ref.posts
          /\ master[SUBREDDIT].total_posts = bf_ref.total_posts

\* No process is inside save_state, between its open for writing and the end
\* of its json.dump.
NoSaveUnderWay == bf_pc \notin {"save_dump", "fail_dump"}

\* C27. Cursor monotonicity: whatever the runs before did (chunks that
\* succeeded, chunks that failed, runs that were killed and started again),
\* the progress file holds for every flair a cursor that is not behind the
\* one last written for it; and a save made for one flair writes for every
\* other flair the cursor the file held for it.
C27_CursorMonotone ==
    /\ NoSaveUnderWay =>
          /\ ~state_file.torn
          /\ \A f \in 1..Len(FLAIRS) : state_file.cur[f] >= bf_persisted[f]
    /\ bf_pc \in Running =>
          /\ \A f \in 1..Len(FLAIRS) : state[f] >= bf_persisted[f]
          /\ \A f \in 1..Len(FLAIRS) :
                (f # flair /\ bf_pc # "for") => state[f] = bf_persisted[f]

\* The chunks this run requested for flair f, in the order of the requests.
LaunchesOf(f) == SelectSeq(bf_launches, LAMBDA l : l.flair = f)

\* C24. Backfill chunking: a run that began with no cursor and met no failure
\* has requested, for each flair, chunks that are oldest first, each within
\* one calendar month with since <= until, each beginning the day after the
\* one before it ended, the first beginning at start_date (today less the
\* window) and the last ending at end_date (today), whatever the day of the
\* month today is.
C24_ChunksCoverWindow ==
    (bf_pc = "done" /\ bf_loaded = NoCursors) =>
        \A f \in 1..Len(FLAIRS) :
            LET ls == LaunchesOf(f)
            IN /\ ls # <<>>
               /\ ls[1].since = start_date
               /\ \A i \in 1..Len(ls) :
                     /\ ls[i].since <= ls[i].until
                     /\ MonthOf(ls[i].since) = MonthOf(ls[i].until)
               /\ \A i \in 1..(Len(ls) - 1) : ls[i + 1].since = ls[i].until + 1
               /\ ls[Len(ls)].until = end_date

(***************************************************************************)
(* Properties of run_daily                                                 *)
(***************************************************************************)
\* C11. The daily window does not depend on persisted state: whatever the
\* daily and the backfill progress files hold, every run_scraper call of an
\* invocation asks for the window from three days before the invocation's
\* date through that date.
C11_DailyWindowStateless ==
    /\ d_pc \in {"loop", "record"} => d_now = today
    /\ \A i \in 1..Len(d_requests) :
          /\ d_requests[i].since = d_now - 3
          /\ d_requests[i].until = d_now

\* An invocation that loaded a recorded last run, beside a backfill progress
\* file with cursors, has called run_scraper for every flair.
C11_Witness ==
    /\ d_state # 0
    /\ d_before # 0
    /\ state_file.cur # NoCursors
    /\ Len(d_requests) = Len(FLAIRS)

\* C12. Daily fail-fast: the flairs are taken in the order of FLAIRS; the
\* first call that fails is the last call of the invocation; and the master
\* is then as the last successful call of the invocation left it.
C12_DailyFailFast ==
    /\ \A i \in 1..Len(d_requests) : d_requests[i].flair = i
    /\ d_failed # 0 => (Len(d_requests) = d_failed /\ d_pc = "aborted")
    /\ (d_pc = "aborted" /\ d_failed > 1) => master[SUBREDDIT] = d_kept

\* C13. The last-run stamp is recorded if and only if every flair succeeded:
\* an invocation that has ended after three successes has written its stamp,
\* and until then, and after a failure, the daily progress file is as it was
\* when the invocation began.
C13_LastRunOnlyOnSuccess ==
    /\ d_pc = "done" =>
          /\ d_failed = 0
          /\ Len(d_requests) = Len(FLAIRS)
          /\ d_file = d_runs
          /\ d_file # d_before
    /\ d_pc \in {"loop", "record", "aborted"} => d_file = d_before
    /\ d_pc = "aborted" => d_failed # 0

\* An invocation that began with a recorded last run has failed at its last
\* flair.
C13_Witness ==
    /\ d_pc = "aborted"
    /\ d_failed = Len(FLAIRS)
    /\ d_before # 0

(***************************************************************************)
(* Properties of the run snapshot                                          *)
(***************************************************************************)
\* C14. The snapshot writer never overwrites: every snapshot is written to a
\* path no earlier snapshot was written to, so every snapshot written is still
\* there with the content it was written with.
C14_SnapshotNeverOverwrites ==
    /\ \A i, j \in 1..Len(sn_log) : sn_log[i].path = sn_log[j].path => i = j
    /\ \A i \in 1..Len(sn_log) : sn_files[sn_log[i].path] = sn_log[i].content

(***************************************************************************)
(* Properties of parse_comment and fetch_comments                          *)
(***************************************************************************)
\* The comments among the nodes of a listing, in the listing's order.
Genuine(children) == SelectSeq(children, LAMBDA c : c.kind = "t1")

\* The nodes nested in a node's own reply payload.
Nested(node) == IF node.replies.is = "dict" THEN node.replies.children ELSE <<>>

\* How many comments a listing holds that hang on comments all the way up.
RECURSIVE CountKept(_)
CountKept(children) ==
    IF children = <<>> THEN 0
    ELSE (IF Head(children).kind = "t1"
            THEN 1 + CountKept(Nested(Head(children))) ELSE 0)
         + CountKept(Tail(children))

\* How many Reply entries a parsed list holds, at every depth.
RECURSIVE CountReplies(_)
CountReplies(l) ==
    IF l = <<>> THEN 0
    ELSE 1 + CountReplies(Head(l).replies) + CountReplies(Tail(l))

\* The Reply entries are the listing's comments, one each and in order, and
\* so at every depth below; every entry has its list of replies.
RECURSIVE Matches(_, _)
Matches(l, children) ==
    /\ Len(l) = Len(Genuine(children))
    /\ \A i \in 1..Len(l) :
          /\ DOMAIN l[i] = {"id", "replies"}
          /\ l[i].id = Genuine(children)[i].id
          /\ Matches(l[i].replies, Nested(Genuine(children)[i]))

\* C15. Tree-parsing correctness: what fetch_comments returns for a thread
\* holds one Reply for every comment node whose ancestors are all comments,
\* and nothing for any other node; a comment with N comments among its nested
\* children has exactly those N as its replies, in order and so on down to the
\* depth of the payload; and every Reply has a list of replies, which is
\* empty when the node has no nested reply payload.
C15_TreeParsing ==
    (cm_pc = "returned" /\ cm_data.is = "list" /\ cm_data.len > 1) =>
        /\ Matches(cm_comments, cm_data.children)
        /\ CountReplies(cm_comments) = CountKept(cm_data.children)

\* A thread of three levels has been parsed in which a placeholder stands
\* beside a comment under a comment, and the tree returned is three deep.
C15_Witness ==
    /\ cm_pc = "returned"
    /\ Len(cm_comments) = 1
    /\ Len(cm_comments[1].replies) = 1
    /\ Len(cm_comments[1].replies[1].replies) = 1
    /\ Len(Nested(Nested(cm_data.children[1])[1])) = 2

(***************************************************************************)
(* Properties of run_for_flair                                             *)
(***************************************************************************)
\* The calls a run makes for the list l the crawler returned: the crawl, one
\* fetch_comments per item of l in order, the snapshot, and the merge.
RECURSIVE FetchesFor(_)
FetchesFor(l) ==
    IF l = <<>> THEN <<>>
    ELSE <<Event("fetch_comments", Head(l).id)>> \o FetchesFor(Tail(l))

PipelineOf(l) ==
    <<Event("crawl", "-")>> \o FetchesFor(l)
        \o <<Event("snapshot", "-"), Event("merge", "-")>>

\* The log is the beginning of s.
IsPrefix(s) ==
    /\ Len(pl_log) <= Len(s)
    /\ \A i \in 1..Len(pl_log) : pl_log[i] = s[i]

\* C16. Run pipeline: a run with merge makes its calls in the order crawl,
\* fetch_comments once for each item the crawl returned, one snapshot, merge;
\* the snapshot holds all those items with their comments; and the merge into
\* a master file that was not there gives a total_posts equal to the number of
\* unique items the crawl returned.
C16_RunPipeline ==
    /\ pl_pc \notin {"off", "start"} => IsPrefix(PipelineOf(pl_crawled))
    /\ (pl_pc = "done" /\ pl_merge) =>
          /\ pl_log = PipelineOf(pl_crawled)
          /\ Len(pl_snaps) = 1
          /\ Len(pl_snaps[1]) = Len(pl_crawled)
          /\ \A i \in 1..Len(pl_crawled) :
                /\ pl_snaps[1][i].id = pl_crawled[i].id
                /\ pl_snaps[1][i].comments # None
          /\ master[SUBREDDIT].total_posts =
                Cardinality(DOMAIN pl_before.posts \cup IdsOf(pl_crawled))
          /\ ~pl_before.exists =>
                /\ master[SUBREDDIT].total_posts = Len(pl_crawled)
                /\ \A i \in 1..Len(pl_crawled) :
                      master[SUBREDDIT].posts[pl_crawled[i].id] = pl_snaps[1][i]

\* A run with merge that crawled two items has ended, on a master file that
\* was not there.
C16_Witness ==
    /\ pl_pc = "done"
    /\ pl_merge
    /\ Len(pl_crawled) = 2
    /\ ~pl_before.exists
    /\ master[SUBREDDIT].total_posts = 2
    /\ pl_log[Len(pl_log)] = Event("merge", "-")

(***************************************************************************)
(* Properties of concurrent merges                                         *)
(***************************************************************************)
BothDone == \A w \in Writers : cw_pc[w] = "done"

\* The ids only the writer that did not write last has merged.
OnlyOfFirst ==
    IdsOf(cw_list[Other(cw_last)])
        \ (IdsOf(cw_list[cw_last]) \cup DOMAIN cw_initial.posts)

\* C17. The master file is not safe for concurrent writers: when both
\* processes load before either writes, the file in the end holds what the
\* last writer had in memory and lacks what only the other merged; when one
\* process begins after the other has ended, the file holds every item of
\* both lists and every item it held before.
C17_ConcurrentWriters ==
    BothDone =>
        /\ cw_bothLoaded =>
              /\ master[SUBREDDIT] = cw_mem[cw_last]
              /\ \A k \in OnlyOfFirst : k \notin DOMAIN master[SUBREDDIT].posts
        /\ ~cw_overlap =>
              /\ \A w \in Writers : IdsOf(cw_list[w]) \subseteq DOMAIN master[SUBREDDIT].posts
              /\ DOMAIN cw_initial.posts \subseteq DOMAIN master[SUBREDDIT].posts
              /\ master[SUBREDDIT].posts[cw_list[cw_last][1].id] = cw_list[cw_last][1]

\* Both processes loaded before either wrote, both have written, and the
\* file lacks the item one of them merged.
C17_Witness ==
    /\ BothDone
    /\ cw_bothLoaded
    /\ \E w \in Writers : \E k \in IdsOf(cw_list[w]) :
          k \notin DOMAIN master[SUBREDDIT].posts

\* One process began after the other had ended, and the file holds two items.
C17_WitnessSerial ==
    /\ BothDone
    /\ ~cw_overlap
    /\ master[SUBREDDIT].total_posts = 2

(***************************************************************************)
(* Further properties of scrape_posts and safe_request                     *)
(***************************************************************************)
\* C18. Stop on a page without in-window items: on a feed in newest-first
\* order and without max_posts (bounds absent or non-zero), a crawl that has
\* returned holds every in-window item of the feed, whatever the window.
C18_StopOnEmptyWindowPage ==
    (/\ max_posts = None
     /\ since_ts # Some(0) /\ until_ts # Some(0)
     /\ NewestFirst
     /\ cr_pc = "returned") =>
        IdsOf(posts) = Available

\* C19. Rate limiting of the crawl: a crawl that goes on to another page has
\* slept once after every page it fetched, and a crawl that has ended,
\* however it ended, has slept once between any two consecutive page fetches
\* and not after the last.
C19_RateLimitBetweenPages ==
    /\ cr_pc = "loop" => cr_sleeps = Len(cr_fetched)
    /\ cr_pc \in {"returned", "raised"} => cr_sleeps = Len(cr_fetched) - 1

\* A crawl has returned after fetching two pages or more.
C19_Witness ==
    /\ cr_pc = "returned"
    /\ Len(cr_fetched) >= 2
    /\ cr_sleeps = Len(cr_fetched) - 1

RECURSIVE Pow2(_)
Pow2(n) == IF n = 0 THEN 1 ELSE 2 * Pow2(n - 1)

\* C20. Exponential backoff: the wait after the i-th failed attempt of a call
\* is 1 s * 2^(i-1), and there are waits only between attempts: a call that
\* ends in the exhaustion error has not waited after its last attempt.
C20_ExponentialBackoff ==
    /\ \A i \in 1..Len(rq_sleeps) : rq_sleeps[i] = Pow2(i - 1)
    /\ rq_pc = "raised_runtime" => Len(rq_sleeps) = Len(rq_hist) - 1

\* C28. Merge frame: a step of the system, and so every call
\* merge_into_master(s, new_posts), keeps every id a master file holds (the
\* ids only grow), leaves unchanged every stored item whose id is not in
\* new_posts, keeps the "created" of a master file that exists, and changes
\* the master file of one subreddit at most.
C28_MergeFrame ==
    [][/\ \A s \in Subreddits :
            /\ DOMAIN master[s].posts \subseteq DOMAIN master'[s].posts
            /\ \A k \in DOMAIN master[s].posts \ IdsOf(new_posts) :
                  master'[s].posts[k] = master[s].posts[k]
            /\ master[s].exists =>
                  /\ master'[s].exists
                  /\ master'[s].created = master[s].created
       /\ \A s1, s2 \in Subreddits :
            (master'[s1] # master[s1] /\ master'[s2] # master[s2]) => s1 = s2
      ]_vars

\* A list has been merged into a master file that was created at an earlier
\* instant and holds an item the list does not have, while the master file of
\* another subreddit exists.
C28_Witness ==
    \E s \in Subreddits :
        /\ m_count[s] >= 1
        /\ new_posts # <<>>
        /\ DOMAIN master[s].posts \ IdsOf(new_posts) # {}
        /\ master[s].created < master[s].last_updated
        /\ \E s2 \in Subreddits \ {s} : master[s2].exists

\* C25. Crawler termination: scrape_posts makes no request twice. It asks
\* for the first page once and for no continuation cursor a second time, so
\* that a feed of finitely many pages is crawled in finitely many requests,
\* also when the feed hands back a cursor it has handed out before with
\* items the crawl has seen.
C25_NoCursorTwice ==
    \A i, j \in 1..Len(cr_fetched) : cr_fetched[i] = cr_fetched[j] => i = j

(***************************************************************************)
(* Further properties of run_for_flair                                     *)
(***************************************************************************)
\* C21. The master is mutated only by the merge the flag selects: a run
\* without merge leaves every master file as it was; in a run with merge the
\* master file differs from what it was only once the merge has been called,
\* which is after the snapshot was written; and no run touches the master
\* file of another subreddit.
C21_MasterOnlyByMerge ==
    pl_pc # "off" =>
        /\ \A s \in Subreddits \ {SUBREDDIT} : master[s] = AbsentFile
        /\ ~pl_merge => master[SUBREDDIT] = pl_before
        /\ master[SUBREDDIT] # pl_before =>
              /\ pl_merge
              /\ Len(pl_snaps) = 1
              /\ Len(pl_log) >= 2
              /\ pl_log[Len(pl_log)] = Event("merge", "-")
              /\ pl_log[Len(pl_log) - 1] = Event("snapshot", "-")

\* A run without merge has crawled two items, fetched their comments and
\* written its snapshot, beside a master file that holds a post.
C21_Witness ==
    /\ pl_pc = "done"
    /\ ~pl_merge
    /\ Len(pl_crawled) = 2
    /\ Len(pl_snaps) = 1
    /\ pl_before.exists
    /\ master[SUBREDDIT] = pl_before

(***************************************************************************)
(* Further properties of merge_into_master                                 *)
(***************************************************************************)
\* C22. Count invariant: after any sequence of merges, each master file's
\* total_posts is the number of ids in its "posts", and every id maps to one
\* item, the item of that id.
C22_CountInvariant ==
    \A s \in Subreddits :
        /\ master[s].total_posts = Cardinality(DOMAIN master[s].posts)
        /\ \A k \in DOMAIN master[s].posts : master[s].posts[k].id = k

\* A list of one item has been merged twice into a master file that holds
\* two items, one of them from an earlier list.
C22_Witness ==
    \E s \in Subreddits :
        /\ m_count[s] = 2
        /\ Len(new_posts) = 1
        /\ master[s].total_posts = 2

====
